---- MODULE Spec2Model ----
(***************************************************************************)
(* Model of the Discord rich-presence IPC client                           *)
(* (pkg/discord-rpc/client): the process-wide `logged` flag, the three     *)
(* public operations Login, SetActivity and Logout, and the ipc package    *)
(* they call (OpenSocket, Send, CloseSocket).  The ipc package is not part *)
(* of the sources at hand; it is modelled from the specification's         *)
(* description of the Endpoint Locator and the Connection.                 *)
(***************************************************************************)
EXTENDS Integers, Sequences, FiniteSets, TLC

\* ---- bounds of the model ------------------------------------------------
MaxConns == 2        \* connections the OS hands out over a run
MaxFrames == 3       \* frames written over a run, all connections together
MaxStale == 1        \* frames that may wait unread on a connection
MaxPayload == 2      \* bytes in the payload of an encoded frame

\* ---- program constants --------------------------------------------------
OpHandshake == 0     \* ipc.Send(0, ...) in Login
OpFrame == 1         \* ipc.Send(1, ...) in SetActivity
NoConn == 0          \* the nil socket handle
OpPing == 3          \* keepalive ping frame
OpPong == 4          \* keepalive pong frame
NumCandidates == 10  \* endpoint candidates 0..9 of the locator
HeaderLen == 8       \* bytes in a frame header

ClientIds == {"abc123", "your-client-id"}
Activities == {"Playing", "Listening"}

\* Outcomes of one ipc.Send: the write and the read succeed, the write
\* fails, or the write succeeds and the read fails (I/O error or truncated
\* frame).
SendOutcomes == {"ok", "werr", "rerr"}

\* The reply frames the companion process may produce.  `json` tells whether
\* the payload is a JSON document at all; `evt` is the event tag ("" when
\* absent); `data` is the shape of the data member.
EvtTags == {"", "ERROR", "READY"}
DataShapes == {"handshake", "string"}
Replies == [json : {TRUE}, evt : EvtTags, data : DataShapes]
             \cup {[json |-> FALSE, evt |-> "", data |-> "string"]}

\* A reply that was never read.
NoReply == [json |-> FALSE, evt |-> "", data |-> "none"]

Results == {"none", "ok", "EndpointExhausted", "SendFailed", "ParseFailed",
            "HandshakeRejected", "HandshakeParseFailed", "ActivityRejected",
            "CloseFailed", "panic"}

VARIABLES
  logged,      \* var logged bool
  socket,      \* the ipc package's current handle, NoConn when nil
  open,        \* the connections that are open at the OS level
  opened,      \* number of connections opened so far (next id - 1)
  sent,        \* sent[c]: the frames written to connection c, in order
  nrecv,       \* nrecv[c]: number of frames read from connection c
  lastOp,      \* the operation that returned last
  lastResult,  \* what it returned (or that it panicked)
  prevOp,      \* the operation that returned before that one
  prevResult,  \* and what it returned
  ready,       \* history: a handshake succeeded and no Logout came since
  inbox,       \* frames that arrived on the current socket and are unread
  exch,        \* what the last operation read, and what was sent to it
  dialed,      \* endpoint candidates the last operation tried to open
  pc,          \* pc[t]: where thread t stands inside its operation
  wireq,       \* wireq[c]: whose requests the replies queued on c answer
  misread,     \* history: a thread read the reply to another's request
  conn,        \* conn[t]: the connection the Send of thread t works on
  res,         \* res[t]: what the last operation of thread t returned
  cut,         \* history: threads whose pending read a Logout closed under
  codec,       \* the last use of the frame codec
  http,        \* the last call of the Modrinth client
  http2,       \* the same call made with the "local-" prefixed id
  cf,          \* the Curseforge client that was built
  cfcall,      \* the last call of the Curseforge client
  drawn,       \* number of values the random source has delivered
  corr         \* the nonce of the last request and that of its reply

histVars == <<lastOp, lastResult, prevOp, prevResult, ready>>

wireVars == <<inbox, exch, dialed>>

concVars == <<pc, wireq, misread, conn, res, cut>>

clientVars == <<logged, socket, open, opened, sent, nrecv>>

pureVars == <<codec, http, http2>>

cfVars == <<cf, cfcall>>

nonceVars == <<drawn, corr>>

extVars == <<cfVars, nonceVars>>

vars == <<logged, socket, open, opened, sent, nrecv, lastOp, lastResult,
          prevOp, prevResult, ready, inbox, exch, dialed, pc, wireq, misread,
          conn, res, cut,
          codec, http, http2, cf, cfcall, drawn, corr>>

Conns == 1..MaxConns

\* The threads that call the client at the same time.
Threads == {1, 2}

\* ---- helpers over the wire logs ----------------------------------------
RECURSIVE SumLen(_, _)
SumLen(f, S) ==
  IF S = {} THEN 0
  ELSE LET c == CHOOSE x \in S : TRUE IN Len(f[c]) + SumLen(f, S \ {c})

TotalSent == SumLen(sent, DOMAIN sent)

RECURSIVE SumCount(_, _)
SumCount(f, S) ==
  IF S = {} THEN 0
  ELSE LET c == CHOOSE x \in S : TRUE IN f[c] + SumCount(f, S \ {c})

TotalRecv == SumCount(nrecv, DOMAIN nrecv)

CountOp(s, op) == Cardinality({i \in 1..Len(s) : s[i].op = op})

\* ---- the ipc package ----------------------------------------------------
IpcState ==
  [socket |-> socket, open |-> open, opened |-> opened,
   sent |-> sent, nrecv |-> nrecv]

\* ipc.OpenSocket: the locator found a candidate (avail) and the channel is
\* opened and becomes the current handle, or every candidate was refused.
OpenSocket(st, avail) ==
  IF avail
  THEN [err |-> FALSE,
        st  |-> [st EXCEPT !.socket = st.opened + 1,
                           !.open = @ \cup {st.opened + 1},
                           !.opened = @ + 1]]
  ELSE [err |-> TRUE, st |-> st]

\* ipc.Send: one frame written, then one frame read.  A transport error on
\* either half closes the connection.
Send(st, opcode, payload, out) ==
  IF st.socket = NoConn \/ st.socket \notin st.open
  THEN [err |-> TRUE, st |-> [st EXCEPT !.socket = NoConn]]
  ELSE LET c == st.socket
           frame == [op |-> opcode, payload |-> payload]
           closed == [st EXCEPT !.socket = NoConn, !.open = @ \ {c}]
       IN CASE out = "werr" -> [err |-> TRUE, st |-> closed]
            [] out = "rerr" ->
                 [err |-> TRUE,
                  st  |-> [closed EXCEPT !.sent[c] = Append(@, frame)]]
            [] OTHER ->
                 [err |-> FALSE,
                  st  |-> [st EXCEPT !.sent[c] = Append(@, frame),
                                     !.nrecv[c] = @ + 1]]

\* ipc.CloseSocket: releases the current handle; the close may report a
\* failure.  Nothing to close is not a failure.
CloseSocket(st, fail) ==
  IF st.socket = NoConn
  THEN [err |-> FALSE, st |-> st]
  ELSE [err |-> fail,
        st  |-> [st EXCEPT !.socket = NoConn, !.open = @ \ {st.socket}]]

SetIpc(st) ==
  /\ socket' = st.socket
  /\ open' = st.open
  /\ opened' = st.opened
  /\ sent' = st.sent
  /\ nrecv' = st.nrecv

\* ---- decoding of replies ------------------------------------------------
\* json.Unmarshal([]byte(resp), &response)
ParsesAsResponse(reply) == reply.json

\* json.Marshal(response.Data) followed by json.Unmarshal into
\* HandshakeResponse: an object of the right shape and an absent (null) data
\* member decode, a JSON string (such as "invalid client id") does not.
DecodesAsHandshake(reply) == reply.data \in {"handshake", "null"}

\* A check that takes every event tag for an error.
IsErrorAnyTag(reply) == reply.evt # ""

IsError(reply) == reply.evt = "ERROR"

\* ---- the client ---------------------------------------------------------
\* json.Marshal(Handshake{"1", clientid})
HandshakePayload(clientid) == [v |-> "1", client_id |-> clientid]

\* json.Marshal(Frame{Cmd: "SET_ACTIVITY", Args: {..., Activity: &activity}})
ActivityPayload(activity) == [cmd |-> "SET_ACTIVITY", activity |-> activity]

\* What Login returns when it performs the handshake, given the outcomes of
\* its calls.
LoginResult(openErr, sendErr, reply) ==
  CASE openErr -> "EndpointExhausted"
    [] sendErr -> "SendFailed"
    [] ~ParsesAsResponse(reply) -> "ParseFailed"
    [] IsError(reply) -> "HandshakeRejected"
    [] ~DecodesAsHandshake(reply) -> "HandshakeParseFailed"
    [] OTHER -> "ok"

\* The body of `if !logged { ... }`: open the socket, send the handshake,
\* judge the reply.  No exit of the block closes the socket.
LoginExchange(clientid, avail, out, reply) ==
  LET o == OpenSocket(IpcState, avail)
      s == IF o.err THEN [err |-> FALSE, st |-> o.st]
           ELSE Send(o.st, OpHandshake, HandshakePayload(clientid), out)
  IN [st |-> s.st, result |-> LoginResult(o.err, s.err, reply)]

\* The model stops handing out connections and frames at its bounds.
LoginWithinBounds(avail) ==
  avail => (opened < MaxConns /\ TotalSent < MaxFrames)

\* Login that performs the handshake whether or not it is logged in.
LoginNoGuard(clientid, avail, out, reply) ==
  LET x == LoginExchange(clientid, avail, out, reply)
  IN /\ lastOp' = "Login"
     /\ LoginWithinBounds(avail)
     /\ SetIpc(x.st)
     /\ lastResult' = x.result
     /\ logged' = IF x.result = "ok" THEN TRUE ELSE logged

\* Login that falls through to `logged = true` when the handshake is
\* rejected.
LoginLoggedOnReject(clientid, avail, out, reply) ==
  /\ lastOp' = "Login"
  /\ IF ~logged
     THEN LET x == LoginExchange(clientid, avail, out, reply)
          IN /\ LoginWithinBounds(avail)
             /\ SetIpc(x.st)
             /\ lastResult' = x.result
             /\ logged' = IF x.result \in {"ok", "HandshakeRejected"}
                          THEN TRUE ELSE logged
     ELSE /\ logged' = TRUE
          /\ lastResult' = "ok"
          /\ UNCHANGED <<socket, open, opened, sent, nrecv>>

\* Login that guards only the opening of the socket and sends the handshake
\* on every call.
LoginResend(clientid, avail, out, reply) ==
  /\ lastOp' = "Login"
  /\ IF ~logged
     THEN LET x == LoginExchange(clientid, avail, out, reply)
          IN /\ LoginWithinBounds(avail)
             /\ SetIpc(x.st)
             /\ lastResult' = x.result
             /\ logged' = IF x.result = "ok" THEN TRUE ELSE logged
     ELSE LET s == Send(IpcState, OpHandshake, HandshakePayload(clientid), out)
          IN /\ TotalSent < MaxFrames
             /\ SetIpc(s.st)
             /\ lastResult' = LoginResult(FALSE, s.err, reply)
             /\ logged' = TRUE

\* Login that goes on to the handshake when no endpoint could be opened.
LoginIgnoreOpenErr(clientid, avail, out, reply) ==
  /\ lastOp' = "Login"
  /\ IF ~logged
     THEN LET o == OpenSocket(IpcState, avail)
              s == Send(o.st, OpHandshake, HandshakePayload(clientid), out)
              r == LoginResult(FALSE, s.err, reply)
          IN /\ LoginWithinBounds(avail)
             /\ SetIpc(s.st)
             /\ lastResult' = r
             /\ logged' = IF r = "ok" THEN TRUE ELSE logged
     ELSE /\ logged' = TRUE
          /\ lastResult' = "ok"
          /\ UNCHANGED <<socket, open, opened, sent, nrecv>>

Login(clientid, avail, out, reply) ==
  /\ lastOp' = "Login"
  /\ IF ~logged
     THEN LET x == LoginExchange(clientid, avail, out, reply)
          IN /\ LoginWithinBounds(avail)
             /\ SetIpc(x.st)
             /\ lastResult' = x.result
             /\ logged' = IF x.result = "ok" THEN TRUE ELSE logged
     ELSE /\ logged' = TRUE
          /\ lastResult' = "ok"
          /\ UNCHANGED <<socket, open, opened, sent, nrecv>>

\* Logout that leaves the logged flag as it is.
LogoutKeepLogged(fail) ==
  LET c == CloseSocket(IpcState, fail)
  IN /\ lastOp' = "Logout"
     /\ UNCHANGED logged
     /\ SetIpc(c.st)
     /\ lastResult' = IF c.err THEN "panic" ELSE "ok"

\* Logout has no result value: a failed close leaves it by panic(err).
Logout(fail) ==
  LET c == CloseSocket(IpcState, fail)
  IN /\ lastOp' = "Logout"
     /\ logged' = FALSE
     /\ SetIpc(c.st)
     /\ lastResult' = IF c.err THEN "panic" ELSE "ok"

\* The judgement of a reply without the check of its event tag.
SetActivityResultIgnoreEvt(sendErr, reply) ==
  CASE sendErr -> "SendFailed"
    [] ~ParsesAsResponse(reply) -> "ParseFailed"
    [] OTHER -> "ok"

SetActivityResult(sendErr, reply) ==
  CASE sendErr -> "SendFailed"
    [] ~ParsesAsResponse(reply) -> "ParseFailed"
    [] IsError(reply) -> "ActivityRejected"
    [] OTHER -> "ok"

\* An exchange that sends the request a second time.
SetActivityExchangeResend(activity, out, reply) ==
  LET s1 == Send(IpcState, OpFrame, ActivityPayload(activity), out)
      s == IF s1.err THEN s1
           ELSE Send(s1.st, OpFrame, ActivityPayload(activity), out)
  IN /\ TotalSent < MaxFrames
     /\ SetIpc(s.st)
     /\ lastResult' = SetActivityResult(s.err, reply)
     /\ UNCHANGED logged

\* The part of SetActivity after the `if !logged` early return.
SetActivityExchange(activity, out, reply) ==
  LET s == Send(IpcState, OpFrame, ActivityPayload(activity), out)
  IN /\ TotalSent < MaxFrames
     /\ SetIpc(s.st)
     /\ lastResult' = SetActivityResult(s.err, reply)
     /\ UNCHANGED logged

\* SetActivity that returns early when there is no socket, rather than when
\* not logged in.
SetActivityIfConnected(activity, out, reply) ==
  /\ lastOp' = "SetActivity"
  /\ IF socket = NoConn
     THEN /\ lastResult' = "ok"
          /\ UNCHANGED <<logged, socket, open, opened, sent, nrecv>>
     ELSE SetActivityExchange(activity, out, reply)

\* SetActivity without the early return.
SetActivityNoGuard(activity, out, reply) ==
  /\ lastOp' = "SetActivity"
  /\ SetActivityExchange(activity, out, reply)

\* SetActivity that drops the login when the update is rejected.
SetActivityLogoutOnReject(activity, out, reply) ==
  /\ lastOp' = "SetActivity"
  /\ IF ~logged
     THEN /\ lastResult' = "ok"
          /\ UNCHANGED <<logged, socket, open, opened, sent, nrecv>>
     ELSE LET s == Send(IpcState, OpFrame, ActivityPayload(activity), out)
              r == SetActivityResult(s.err, reply)
          IN /\ TotalSent < MaxFrames
             /\ SetIpc(s.st)
             /\ lastResult' = r
             /\ logged' = (r # "ActivityRejected")

SetActivity(activity, out, reply) ==
  /\ lastOp' = "SetActivity"
  /\ IF ~logged
     THEN /\ lastResult' = "ok"
          /\ UNCHANGED <<logged, socket, open, opened, sent, nrecv>>
     ELSE SetActivityExchange(activity, out, reply)

\* ---- the nonce of a request ---------------------------------------------
\* rand.Read(buf): the next value of a source that does not repeat itself,
\* or the buffer left at zero when the source fails (the error is printed
\* and the buffer used all the same).
RandRead(randOk, delivered) == IF randOk THEN delivered + 1 ELSE 0

\* getNonce: the buffer formatted as a version 4 UUID.
GetNonce(buf) == [version |-> 4, bits |-> buf]

\* No reply to a SetActivity has been read.
NoCorr == [nonce |-> "none", reply |-> NoReply, rel |-> "none"]

\* How the nonce of a reply stands to that of the request.
NonceRelations == {"same", "other", "absent"}

\* A SetActivity that takes a reply with a foreign or missing nonce for a
\* failure.
SetActivityCheckNonce(activity, randOk, rel, out, reply) ==
  /\ lastOp' = "SetActivity"
  /\ IF ~logged
     THEN /\ lastResult' = "ok"
          /\ UNCHANGED <<logged, socket, open, opened, sent, nrecv>>
          /\ UNCHANGED <<drawn, corr>>
     ELSE LET nonce == GetNonce(RandRead(randOk, drawn))
              payload == [cmd |-> "SET_ACTIVITY", activity |-> activity,
                          nonce |-> nonce]
              s == Send(IpcState, OpFrame, payload, out)
          IN /\ TotalSent < MaxFrames
             /\ SetIpc(s.st)
             /\ lastResult' = IF ~s.err /\ ParsesAsResponse(reply)
                                 /\ rel # "same"
                              THEN "NonceMismatch"
                              ELSE SetActivityResult(s.err, reply)
             /\ drawn' = IF randOk THEN drawn + 1 ELSE drawn
             /\ corr' = IF s.err THEN NoCorr
                        ELSE [nonce |-> nonce, reply |-> reply, rel |-> rel]
             /\ UNCHANGED logged

\* SetActivity with the nonce of its frame: the request carries getNonce(),
\* and the reply is judged by its event tag alone.
SetActivityWithNonce(activity, randOk, rel, out, reply) ==
  /\ lastOp' = "SetActivity"
  /\ IF ~logged
     THEN /\ lastResult' = "ok"
          /\ UNCHANGED <<logged, socket, open, opened, sent, nrecv>>
          /\ UNCHANGED <<drawn, corr>>
     ELSE LET nonce == GetNonce(RandRead(randOk, drawn))
              payload == [cmd |-> "SET_ACTIVITY", activity |-> activity,
                          nonce |-> nonce]
              s == Send(IpcState, OpFrame, payload, out)
          IN /\ TotalSent < MaxFrames
             /\ SetIpc(s.st)
             /\ lastResult' = SetActivityResult(s.err, reply)
             /\ drawn' = IF randOk THEN drawn + 1 ELSE drawn
             /\ corr' = IF s.err THEN NoCorr
                        ELSE [nonce |-> nonce, reply |-> reply, rel |-> rel]
             /\ UNCHANGED logged

\* ---- history ------------------------------------------------------------
\* The step wrote a frame with the given opcode.
Wrote(op) ==
  \E c \in DOMAIN sent :
     /\ Len(sent'[c]) = Len(sent[c]) + 1
     /\ sent'[c][Len(sent'[c])].op = op

WroteAny == TotalSent' # TotalSent
ReadAny == TotalRecv' # TotalRecv

\* Every call shifts the record of the last call.
ObserveCall ==
  /\ prevOp' = lastOp
  /\ prevResult' = lastResult

\* Ready: a Login returned success after a handshake exchange; it lasts
\* until the next Logout.
ObserveLogin ==
  ready' = IF lastResult' = "ok" /\ Wrote(OpHandshake) THEN TRUE ELSE ready

\* ---- the wire, seen from the companion process --------------------------
NoExchange == [read |-> NoReply, reply |-> NoReply, pre |-> "none",
               detail |-> "none"]

\* The payload of a keepalive frame: a JSON document without event tag and
\* without data.
KeepalivePayload == [json |-> TRUE, evt |-> "", data |-> "null"]

Keepalives == {"none", "ping", "pong"}

\* What the companion process puts on the wire in answer to one request: the
\* reply frame, with a keepalive frame in front of it or not.
Delivery(pre, reply) ==
  LET r == [op |-> OpFrame, payload |-> reply]
  IN CASE pre = "ping" -> <<[op |-> OpPing, payload |-> KeepalivePayload], r>>
       [] pre = "pong" -> <<[op |-> OpPong, payload |-> KeepalivePayload], r>>
       [] OTHER -> <<r>>

\* The index of the first endpoint candidate that accepts the connection,
\* NumCandidates when every candidate refuses.
FirstAccepting == {0, NumCandidates - 1, NumCandidates}

\* The locator tries the candidates in order and stops at the first that
\* opens.
Found(first) == first < NumCandidates
Tried(first) == IF Found(first) THEN first + 1 ELSE NumCandidates

\* fmt.Errorf("discord error: %v", response.Data)
ErrorDetail(result, reply) ==
  IF result \in {"HandshakeRejected", "ActivityRejected"}
  THEN reply.data ELSE "none"

\* ipc.Send reads the frame at the head of what has arrived: exactly one
\* frame, whatever its opcode.  What it leaves unread stays on the
\* connection.
ObserveWire(arrivals, pre, reply) ==
  /\ inbox' = IF socket' = NoConn THEN <<>>
              ELSE IF ReadAny THEN Tail(arrivals)
              ELSE IF opened' # opened THEN <<>>
              ELSE inbox
  /\ exch' = IF ReadAny
             THEN [read |-> Head(arrivals).payload, reply |-> reply,
                   pre |-> pre,
                   detail |-> ErrorDetail(lastResult', Head(arrivals).payload)]
             ELSE NoExchange

\* ---- the frame codec ----------------------------------------------------
\* A 32-bit unsigned integer is kept as its two 16-bit halves, so that every
\* value up to 2^32 - 1 can be written down.
U32(n) == [hi |-> (n \div 65536) % 65536, lo |-> n % 65536]

MaxU32 == [hi |-> 65535, lo |-> 65535]

\* The four bytes of a 32-bit unsigned integer, least significant first.
LE32(u) == <<u.lo % 256, u.lo \div 256, u.hi % 256, u.hi \div 256>>

FromLE32(b) == [hi |-> b[3] + 256 * b[4], lo |-> b[1] + 256 * b[2]]

\* An encoder that writes its header in network byte order.
EncodeBigEndian(opcode, payload) ==
  LET BE32(u) == <<u.hi \div 256, u.hi % 256, u.lo \div 256, u.lo % 256>>
  IN BE32(opcode) \o BE32(U32(Len(payload))) \o payload

\* An encoder that writes the payload length before the opcode.
EncodeLengthFirst(opcode, payload) ==
  LE32(U32(Len(payload))) \o LE32(opcode) \o payload

\* encode: the 8-byte header (opcode, payload length), then the payload.
Encode(opcode, payload) ==
  LE32(opcode) \o LE32(U32(Len(payload))) \o payload

Truncated == [ok |-> FALSE, opcode |-> U32(0), payload |-> <<>>]

\* A decoder that returns the payload bytes that arrived before the stream
\* closed.
DecodeAvailable(stream) ==
  IF Len(stream) < HeaderLen THEN Truncated
  ELSE LET length == FromLE32(SubSeq(stream, 5, 8))
           last == IF length.hi > 0 \/ length.lo > Len(stream) - HeaderLen
                   THEN Len(stream) ELSE HeaderLen + length.lo
       IN [ok |-> TRUE,
           opcode |-> FromLE32(SubSeq(stream, 1, 4)),
           payload |-> SubSeq(stream, HeaderLen + 1, last)]

\* decode: 8 header bytes, then as many payload bytes as the header states;
\* TruncatedFrame when the stream ends before that.
Decode(stream) ==
  IF Len(stream) < HeaderLen THEN Truncated
  ELSE LET length == FromLE32(SubSeq(stream, 5, 8))
       IN IF length.hi > 0 \/ length.lo > Len(stream) - HeaderLen
          THEN Truncated
          ELSE [ok |-> TRUE,
                opcode |-> FromLE32(SubSeq(stream, 1, 4)),
                payload |-> SubSeq(stream, HeaderLen + 1,
                                   HeaderLen + length.lo)]

\* Opcodes of the protocol, and values that use every byte of the header.
Opcodes == {U32(0), U32(1), U32(2), U32(3), U32(4), U32(255), U32(256),
            U32(65535), [hi |-> 258, lo |-> 772], MaxU32}

PayloadBytes == {0, 123, 255}

RECURSIVE SeqsUpTo(_, _)
SeqsUpTo(S, n) ==
  IF n = 0 THEN {<<>>}
  ELSE LET shorter == SeqsUpTo(S, n - 1)
       IN shorter \cup {Append(s, x) : s \in {q \in shorter : Len(q) = n - 1},
                                       x \in S}

Payloads == SeqsUpTo(PayloadBytes, MaxPayload)

NoCodec == [did |-> "none", opcode |-> U32(0), payload |-> <<>>,
            bytes |-> <<>>, decoded |-> Truncated]

\* ---- the Modrinth client ------------------------------------------------
\* Strings that the client takes apart are sequences of characters.
LocalPrefix == <<"l", "o", "c", "a", "l", "-">>

HasPrefix(s, prefix) ==
  Len(s) >= Len(prefix) /\ SubSeq(s, 1, Len(prefix)) = prefix

\* strings.TrimPrefix: s without the prefix when it starts with it, else s.
TrimPrefix(s, prefix) ==
  IF HasPrefix(s, prefix) THEN SubSeq(s, Len(prefix) + 1, Len(s)) ELSE s

RECURSIVE TrimAll(_, _)
TrimAll(s, prefix) ==
  IF HasPrefix(s, prefix) /\ Len(prefix) > 0
  THEN TrimAll(TrimPrefix(s, prefix), prefix)
  ELSE s

BaseURL == <<"https://api.modrinth.com">>

ProjectIds == {<<>>, <<"a">>, <<"P", "7">>, <<"l", "o", "c", "a", "l">>,
               <<"a">> \o LocalPrefix, LocalPrefix, LocalPrefix \o <<"a">>,
               LocalPrefix \o LocalPrefix \o <<"a">>}

MimeTypes == {"image/png", "png"}

Statuses == {200, 201, 204, 299, 300, 404, 500}

ProjectBody == "{\"slug\":\"fabric-api\"}"

Bodies == {ProjectBody, "null", "[]", "Not found", ""}

ZeroValue == [slug |-> ""]

\* json.Decoder.Decode into a struct: an object fills it, null leaves it
\* as it was, anything else (an array, text, an empty body) is an error.
JsonDecode(body) ==
  IF body = ProjectBody THEN [ok |-> TRUE, value |-> [slug |-> "fabric-api"]]
  ELSE IF body = "null" THEN [ok |-> TRUE, value |-> ZeroValue]
  ELSE [ok |-> FALSE, value |-> ZeroValue]

\* What the transport hands back: no response at all, or the response of
\* the last request made, which is not the first one after a redirect.
NoResponse == [sent |-> FALSE, redirected |-> FALSE, status |-> 0, body |-> ""]

Responses ==
  {NoResponse} \cup
  [sent : {TRUE}, redirected : BOOLEAN, status : Statuses, body : Bodies]

RedirectTarget == <<"https://cdn.modrinth.com/moved">>

\* resp.Request.URL of a response to a request for url.
FinalURL(url, resp) == IF resp.redirected THEN RedirectTarget ELSE url

NoApiError == [URL |-> <<>>, Status |-> 0, Body |-> ""]

ApiError(url, resp) ==
  [URL |-> FinalURL(url, resp), Status |-> resp.status, Body |-> resp.body]

\* A doJSON that takes only the statuses from 400 up for failures.
DoJSONFrom400(url, wantResult, resp) ==
  IF ~resp.sent
  THEN [err |-> "transport", api |-> NoApiError, result |-> ZeroValue]
  ELSE IF resp.status < 200 \/ resp.status >= 400
  THEN [err |-> "ModrinthAPIError", api |-> ApiError(url, resp),
        result |-> ZeroValue]
  ELSE IF wantResult
  THEN [err |-> IF JsonDecode(resp.body).ok THEN "nil" ELSE "decode",
        api |-> NoApiError, result |-> JsonDecode(resp.body).value]
  ELSE [err |-> "nil", api |-> NoApiError, result |-> ZeroValue]

\* doJSON: the transport's error, else a ModrinthAPIError for a status
\* outside 200..299, else the decoder's verdict when a result is wanted.
DoJSON(url, wantResult, resp) ==
  IF ~resp.sent
  THEN [err |-> "transport", api |-> NoApiError, result |-> ZeroValue]
  ELSE IF resp.status < 200 \/ resp.status >= 300
  THEN [err |-> "ModrinthAPIError", api |-> ApiError(url, resp),
        result |-> ZeroValue]
  ELSE IF wantResult
  THEN [err |-> IF JsonDecode(resp.body).ok THEN "nil" ELSE "decode",
        api |-> NoApiError, result |-> JsonDecode(resp.body).value]
  ELSE [err |-> "nil", api |-> NoApiError, result |-> ZeroValue]

Call(name, id, url, wantResult, resp, out) ==
  [call |-> name, id |-> id, url |-> url, requested |-> TRUE,
   wantResult |-> wantResult, resp |-> resp,
   err |-> out.err, api |-> out.api, result |-> out.result]

NoCall == [call |-> "none", id |-> <<>>, url |-> <<>>, requested |-> FALSE,
           wantResult |-> FALSE, resp |-> NoResponse,
           err |-> "nil", api |-> NoApiError, result |-> ZeroValue]

ProjectURL(id) == BaseURL \o <<"/v2/project/">> \o id

\* A GetProject that removes every leading "local-".
GetProjectTrimAll(projectID, resp) ==
  LET url == ProjectURL(TrimAll(projectID, LocalPrefix))
  IN Call("GetProject", projectID, url, TRUE, resp, DoJSON(url, TRUE, resp))

GetProject(projectID, resp) ==
  LET url == ProjectURL(TrimPrefix(projectID, LocalPrefix))
  IN Call("GetProject", projectID, url, TRUE, resp, DoJSON(url, TRUE, resp))

FollowProject(id, resp) ==
  LET url == ProjectURL(id) \o <<"/follow">>
  IN Call("FollowProject", id, url, FALSE, resp, DoJSON(url, FALSE, resp))

\* UpdateCollectionIcon checks the mime type, then the status on its own.
UpdateCollectionIcon(collectionID, mimeType, resp) ==
  LET url == BaseURL \o <<"/v3/collection/">> \o collectionID
               \o <<"/icon?ext=">> \o <<"png">>
  IN IF mimeType = "png"
     THEN [NoCall EXCEPT !.call = "UpdateCollectionIcon",
                         !.id = collectionID, !.err = "invalid mime type"]
     ELSE Call("UpdateCollectionIcon", collectionID, url, FALSE, resp,
               IF ~resp.sent
               THEN [err |-> "transport", api |-> NoApiError,
                     result |-> ZeroValue]
               ELSE IF resp.status < 200 \/ resp.status >= 300
               THEN [err |-> "ModrinthAPIError", api |-> ApiError(url, resp),
                     result |-> ZeroValue]
               ELSE [err |-> "nil", api |-> NoApiError, result |-> ZeroValue])

\* ---- the Curseforge client ----------------------------------------------
\* A Go map from header names to values is a function on the names it has.
EmptyMap == [k \in {} |-> ""]

\* for k, v := range h { m[k] = v }
MapInto(m, h) ==
  [k \in DOMAIN m \cup DOMAIN h |-> IF k \in DOMAIN h THEN h[k] ELSE m[k]]

\* textproto.CanonicalMIMEHeaderKey, for the names in use.
CanonicalKey(name) ==
  CASE name \in {"x-api-key", "X-Api-Key"} -> "X-Api-Key"
    [] name = "accept" -> "Accept"
    [] name = "hello" -> "Hello"
    [] OTHER -> name

ApiKeys == {"key", "k2"}

CfBaseURLs == {<<"https://test.url">>, <<"http://127.0.0.1:8080">>}

HeaderMaps ==
  {EmptyMap, "hello" :> "world", ("hello" :> "world") @@ ("accept" :> "*/*"),
   "x-api-key" :> "other", "X-Api-Key" :> "other", "x-api-key" :> "key"}

WithBaseURL(baseURL) == [opt |-> "WithBaseURL", baseURL |-> baseURL]

WithHeaders(headers) == [opt |-> "WithHeaders", headers |-> headers]

RECURSIVE ApplyOptions(_, _)
ApplyOptions(c, options) ==
  IF options = <<>> THEN c
  ELSE LET o == Head(options)
       IN ApplyOptions(
            IF o.opt = "WithBaseURL" THEN [c EXCEPT !.baseURL = o.baseURL]
            ELSE [c EXCEPT !.headers = MapInto(@, o.headers)],
            Tail(options))

\* A constructor that does not put the api key among the headers.
NewCurseforgeV1ClientNoKey(apiKey, options) ==
  ApplyOptions([baseURL |-> <<"https://api.curseforge.com">>,
                headers |-> "accept" :> "application/json"],
               options)

NewCurseforgeV1Client(apiKey, options) ==
  ApplyOptions([baseURL |-> <<"https://api.curseforge.com">>,
                headers |-> ("x-api-key" :> apiKey)
                              @@ ("accept" :> "application/json")],
               options)

\* The headers of a request: req.Header.Set(k, v) for the entries of the
\* map in the order the range statement delivers them, which is any order;
\* Set files the value under the canonical form of k.
RequestHeaders(headers) ==
  LET names == {CanonicalKey(k) : k \in DOMAIN headers}
  IN {f \in [names -> {headers[k] : k \in DOMAIN headers}] :
        \A n \in names :
           \E k \in DOMAIN headers : CanonicalKey(k) = n /\ f[n] = headers[k]}

\* http.Header.Get
HeaderGet(header, name) ==
  IF CanonicalKey(name) \in DOMAIN header THEN header[CanonicalKey(name)]
  ELSE ""

ModIds == {1, 310806}

ModBody == "{\"data\":{\"name\":\"hello\"}}"

CfBodies == {ModBody, "{}", "Not found", ""}

ZeroMod == [name |-> ""]

\* Decode into struct{ Data Mod }: an object fills what it names.
CfJsonDecode(body) ==
  IF body = ModBody THEN [ok |-> TRUE, value |-> [name |-> "hello"]]
  ELSE IF body = "{}" THEN [ok |-> TRUE, value |-> ZeroMod]
  ELSE [ok |-> FALSE, value |-> ZeroMod]

CfResponses ==
  {NoResponse} \cup
  [sent : {TRUE}, redirected : BOOLEAN, status : Statuses, body : CfBodies]

\* A doJSON that takes every status in 200..299 for a success.
CfDoJSON2xx(url, wantResult, resp) ==
  IF ~resp.sent
  THEN [err |-> "transport", api |-> NoApiError, result |-> ZeroMod]
  ELSE IF resp.status < 200 \/ resp.status >= 300
  THEN [err |-> "CurseforgeAPIError", api |-> ApiError(url, resp),
        result |-> ZeroMod]
  ELSE IF wantResult
  THEN [err |-> IF CfJsonDecode(resp.body).ok THEN "nil" ELSE "decode",
        api |-> NoApiError, result |-> CfJsonDecode(resp.body).value]
  ELSE [err |-> "nil", api |-> NoApiError, result |-> ZeroMod]

\* doJSON of the Curseforge client: only status 200 is a success.
CfDoJSON(url, wantResult, resp) ==
  IF ~resp.sent
  THEN [err |-> "transport", api |-> NoApiError, result |-> ZeroMod]
  ELSE IF resp.status # 200
  THEN [err |-> "CurseforgeAPIError", api |-> ApiError(url, resp),
        result |-> ZeroMod]
  ELSE IF wantResult
  THEN [err |-> IF CfJsonDecode(resp.body).ok THEN "nil" ELSE "decode",
        api |-> NoApiError, result |-> CfJsonDecode(resp.body).value]
  ELSE [err |-> "nil", api |-> NoApiError, result |-> ZeroMod]

\* GetMod, with the headers the request went out with.
GetMod(c, modID, header, resp) ==
  LET url == c.baseURL \o <<"/v1/mods/">> \o <<ToString(modID)>>
      out == CfDoJSON(url, TRUE, resp)
  IN [call |-> "GetMod", url |-> url, header |-> header, resp |-> resp,
      err |-> out.err, api |-> out.api, result |-> out.result]

NoClient == [made |-> FALSE, apiKey |-> "", options |-> <<>>,
             baseURL |-> <<>>, headers |-> EmptyMap]

NoCfCall == [call |-> "none", url |-> <<>>, header |-> EmptyMap,
             resp |-> NoResponse, err |-> "nil", api |-> NoApiError,
             result |-> ZeroMod]

Init ==
  /\ logged = FALSE
  /\ socket = NoConn
  /\ open = {}
  /\ opened = 0
  /\ sent = [c \in Conns |-> <<>>]
  /\ nrecv = [c \in Conns |-> 0]
  /\ lastOp = "none"
  /\ lastResult = "none"
  /\ prevOp = "none"
  /\ prevResult = "none"
  /\ ready = FALSE
  /\ inbox = <<>>
  /\ exch = NoExchange
  /\ dialed = 0
  /\ pc = [t \in Threads |-> "idle"]
  /\ wireq = [c \in Conns |-> <<>>]
  /\ misread = FALSE
  /\ conn = [t \in Threads |-> NoConn]
  /\ res = [t \in Threads |-> "none"]
  /\ cut = {}
  /\ codec = NoCodec
  /\ http = NoCall
  /\ http2 = NoCall
  /\ cf = NoClient
  /\ cfcall = NoCfCall
  /\ drawn = 0
  /\ corr = NoCorr

\* Inputs are drawn only where the operation looks at them: nothing is sent
\* to an endpoint that refused, nothing is read after a failed send.
LoginStep ==
  \E clientid \in ClientIds, avail \in BOOLEAN :
  \E out \in IF avail /\ ~logged THEN SendOutcomes ELSE {"ok"} :
  \E reply \in IF avail /\ ~logged /\ out = "ok" THEN Replies ELSE {NoReply} :
     /\ logged => avail
     /\ Login(clientid, avail, out, reply) /\ ObserveCall /\ ObserveLogin
     /\ UNCHANGED <<wireVars, concVars, pureVars, extVars>>

LogoutStep ==
  \E fail \in BOOLEAN :
     /\ Logout(fail) /\ ObserveCall /\ ready' = FALSE
     /\ UNCHANGED <<wireVars, concVars, pureVars, extVars>>

SetActivityStep ==
  \E activity \in Activities :
  \E out \in IF logged THEN SendOutcomes ELSE {"ok"} :
  \E reply \in IF logged /\ out = "ok" THEN Replies ELSE {NoReply} :
     /\ SetActivity(activity, out, reply) /\ ObserveCall /\ UNCHANGED ready
     /\ UNCHANGED <<wireVars, concVars, pureVars, extVars>>

Next == LoginStep \/ LogoutStep \/ SetActivityStep

Spec == Init /\ [][Next]_vars

TypeOK ==
  /\ logged \in BOOLEAN
  /\ socket \in {NoConn} \cup Conns
  /\ open \subseteq Conns
  /\ opened \in 0..MaxConns
  /\ lastResult \in Results
  /\ prevResult \in Results
  /\ ready \in BOOLEAN

\* ---- the client against a companion process that may send keepalives ----
\* The record of the call before the last is not kept here.
WireLoginStep ==
  \E clientid \in ClientIds, first \in FirstAccepting :
  \E out \in IF Found(first) /\ ~logged THEN SendOutcomes ELSE {"ok"} :
  \E pre \in IF Found(first) /\ ~logged /\ out = "ok"
              THEN Keepalives ELSE {"none"} :
  \E reply \in IF Found(first) /\ ~logged /\ out = "ok"
                THEN Replies ELSE {NoReply} :
     LET fresh == ~logged /\ Found(first)
         arrivals == (IF fresh THEN <<>> ELSE inbox) \o Delivery(pre, reply)
     IN /\ logged => first = 0
        /\ pre # "none" => Len(inbox) < MaxStale
        /\ Login(clientid, Found(first), out, Head(arrivals).payload)
        /\ ObserveLogin
        /\ ObserveWire(arrivals, pre, reply)
        /\ dialed' = IF logged THEN 0 ELSE Tried(first)
        /\ UNCHANGED <<prevOp, prevResult, concVars, pureVars, extVars>>

WireLogoutStep ==
  \E fail \in BOOLEAN :
     /\ Logout(fail) /\ ready' = FALSE
     /\ inbox' = <<>>
     /\ exch' = NoExchange
     /\ dialed' = 0
     /\ UNCHANGED <<prevOp, prevResult, concVars, pureVars, extVars>>

WireSetActivityStep ==
  \E activity \in Activities :
  \E out \in IF logged THEN SendOutcomes ELSE {"ok"} :
  \E pre \in IF logged /\ out = "ok" THEN Keepalives ELSE {"none"} :
  \E reply \in IF logged /\ out = "ok" THEN Replies ELSE {NoReply} :
     LET arrivals == inbox \o Delivery(pre, reply)
     IN /\ pre # "none" => Len(inbox) < MaxStale
        /\ SetActivity(activity, out, Head(arrivals).payload)
        /\ UNCHANGED ready
        /\ ObserveWire(arrivals, pre, reply)
        /\ dialed' = 0
        /\ UNCHANGED <<prevOp, prevResult, concVars, pureVars, extVars>>

NextWire == WireLoginStep \/ WireLogoutStep \/ WireSetActivityStep

SpecWire == Init /\ [][NextWire]_vars

\* ---- concurrent callers -------------------------------------------------
\* The operations have no lock: a thread may be pre-empted between any two
\* of their calls, and between the write and the read inside ipc.Send.
\* pc[t] is the place of thread t; wireq[c] holds, for each reply the
\* companion process has queued on connection c, the thread whose request
\* it answers.  Every caller passes the same client id and activity, and
\* the companion process answers with an acknowledgement or an error: the
\* interleavings do not depend on more than that.

\* The write half of ipc.Send.
SendWrite(st, opcode, payload, ok) ==
  IF st.socket = NoConn \/ st.socket \notin st.open
  THEN [err |-> TRUE, st |-> [st EXCEPT !.socket = NoConn]]
  ELSE IF ~ok
  THEN [err |-> TRUE,
        st  |-> [st EXCEPT !.socket = NoConn, !.open = @ \ {st.socket}]]
  ELSE [err |-> FALSE,
        st  |-> [st EXCEPT !.sent[st.socket] =
                   Append(@, [op |-> opcode, payload |-> payload])]]

\* The read half of ipc.Send.
SendRead(st, ok) ==
  IF st.socket = NoConn \/ st.socket \notin st.open
  THEN [err |-> TRUE, st |-> [st EXCEPT !.socket = NoConn]]
  ELSE IF ~ok
  THEN [err |-> TRUE,
        st  |-> [st EXCEPT !.socket = NoConn, !.open = @ \ {st.socket}]]
  ELSE [err |-> FALSE, st |-> [st EXCEPT !.nrecv[st.socket] = @ + 1]]

\* Thread t moves on inside its operation, which has returned nothing yet.
Goto(t, label) ==
  /\ pc' = [pc EXCEPT ![t] = label]
  /\ res' = [res EXCEPT ![t] = "none"]

\* The operation of thread t returns.
Return(t, result) ==
  /\ pc' = [pc EXCEPT ![t] = "idle"]
  /\ res' = [res EXCEPT ![t] = result]

\* Thread t has written its request and waits in the read of ipc.Send.
Pending(t) == pc[t] \in {"login_read", "activity_read"}

\* Login up to `if !logged`, and `logged = true` when it is logged in.
ConcLoginBegin(t) ==
  /\ pc[t] = "idle"
  /\ IF ~logged
     THEN Goto(t, "login_open") /\ UNCHANGED logged
     ELSE Return(t, "ok") /\ logged' = TRUE
  /\ cut' = cut \ {t}
  /\ UNCHANGED <<socket, open, opened, sent, nrecv, wireq, misread, conn>>

\* err = ipc.OpenSocket()
ConcLoginOpen(t, avail) ==
  LET o == OpenSocket(IpcState, avail)
  IN /\ pc[t] = "login_open"
     /\ avail => opened < MaxConns
     /\ SetIpc(o.st)
     /\ IF o.err THEN Return(t, "EndpointExhausted")
        ELSE Goto(t, "login_write")
     /\ UNCHANGED <<logged, wireq, misread, conn, cut>>

\* The write of ipc.Send(0, payload) or ipc.Send(1, payload), on the
\* connection that is current when Send is called.
ConcWrite(t, opcode, payload, ok) ==
  LET w == SendWrite(IpcState, opcode, payload, ok)
  IN /\ TotalSent < MaxFrames
     /\ SetIpc(w.st)
     /\ wireq' = IF w.err THEN wireq
                 ELSE [wireq EXCEPT ![socket] = Append(@, t)]
     /\ conn' = IF w.err THEN conn ELSE [conn EXCEPT ![t] = socket]
     /\ UNCHANGED <<logged, misread, cut>>
     /\ IF w.err THEN Return(t, "SendFailed")
        ELSE Goto(t, IF opcode = OpHandshake THEN "login_read"
                     ELSE "activity_read")

ConcLoginWrite(t, clientid, ok) ==
  /\ pc[t] = "login_write"
  /\ ConcWrite(t, OpHandshake, HandshakePayload(clientid), ok)

\* A read that a close of its connection does not wake.
ConcReadNoWake(t, ok, result, next) ==
  LET c == conn[t]
      r == SendRead([IpcState EXCEPT !.socket = c], ok)
  IN /\ c \in open
     /\ (~r.err) => wireq[c] # <<>>
     /\ SetIpc([r.st EXCEPT !.socket = IF socket = c THEN r.st.socket
                                        ELSE socket])
     /\ wireq' = IF r.err THEN wireq ELSE [wireq EXCEPT ![c] = Tail(@)]
     /\ misread' = (misread \/ (~r.err /\ Head(wireq[c]) # t))
     /\ IF r.err THEN Return(t, "SendFailed")
        ELSE IF next = "idle" THEN Return(t, result)
        ELSE Goto(t, next)
     /\ conn' = [conn EXCEPT ![t] = NoConn]
     /\ UNCHANGED <<logged, cut>>

\* The read of ipc.Send: it waits on the connection it wrote to until a
\* frame arrives there, takes the one at the head, whoever asked for it, and
\* fails when that connection is closed or breaks.  Send is over then, and
\* the thread holds no connection any more.
ConcRead(t, ok, result, next) ==
  LET c == conn[t]
      r == SendRead([IpcState EXCEPT !.socket = c], ok)
  IN /\ (~r.err) => wireq[c] # <<>>
     /\ SetIpc([r.st EXCEPT !.socket = IF socket = c THEN r.st.socket
                                        ELSE socket])
     /\ wireq' = IF r.err THEN wireq ELSE [wireq EXCEPT ![c] = Tail(@)]
     /\ misread' = (misread \/ (~r.err /\ Head(wireq[c]) # t))
     /\ IF r.err THEN Return(t, "SendFailed")
        ELSE IF next = "idle" THEN Return(t, result)
        ELSE Goto(t, next)
     /\ conn' = [conn EXCEPT ![t] = NoConn]
     /\ UNCHANGED <<logged, cut>>

\* The reply is judged between the read and `logged = true`.
ConcLoginRead(t, ok, reply) ==
  /\ pc[t] = "login_read"
  /\ ConcRead(t, ok, LoginResult(FALSE, FALSE, reply),
              IF LoginResult(FALSE, FALSE, reply) = "ok"
              THEN "login_set" ELSE "idle")

\* logged = true
ConcLoginSet(t) ==
  /\ pc[t] = "login_set"
  /\ logged' = TRUE
  /\ Return(t, "ok")
  /\ UNCHANGED <<socket, open, opened, sent, nrecv, wireq, misread, conn,
                 cut>>

\* SetActivity up to the early return.
ConcActivityBegin(t) ==
  /\ pc[t] = "idle"
  /\ IF ~logged THEN Return(t, "ok") ELSE Goto(t, "activity_write")
  /\ cut' = cut \ {t}
  /\ UNCHANGED <<logged, socket, open, opened, sent, nrecv, wireq, misread,
                 conn>>

ConcActivityWrite(t, activity, ok) ==
  /\ pc[t] = "activity_write"
  /\ ConcWrite(t, OpFrame, ActivityPayload(activity), ok)

ConcActivityRead(t, ok, reply) ==
  /\ pc[t] = "activity_read"
  /\ ConcRead(t, ok, SetActivityResult(FALSE, reply), "idle")

\* logged = false
ConcLogoutBegin(t) ==
  /\ pc[t] = "idle"
  /\ logged' = FALSE
  /\ Goto(t, "logout_close")
  /\ cut' = cut \ {t}
  /\ UNCHANGED <<socket, open, opened, sent, nrecv, wireq, misread, conn>>

\* err := ipc.CloseSocket(), and the panic when it fails.  The threads that
\* wait in a read on the connection it closes are noted in cut.
ConcLogoutClose(t, fail) ==
  LET c == CloseSocket(IpcState, fail)
  IN /\ pc[t] = "logout_close"
     /\ SetIpc(c.st)
     /\ Return(t, IF c.err THEN "panic" ELSE "ok")
     /\ cut' = cut \cup {u \in Threads :
                            Pending(u) /\ socket # NoConn /\ conn[u] = socket}
     /\ UNCHANGED <<logged, wireq, misread, conn>>

\* The replies that a concurrent caller tells apart.
ConcReplies ==
  {[json |-> TRUE, evt |-> "", data |-> "handshake"],
   [json |-> TRUE, evt |-> "ERROR", data |-> "string"]}

ConcLoginStep ==
  \E t \in Threads :
     /\ \/ ConcLoginBegin(t)
        \/ \E avail \in BOOLEAN : ConcLoginOpen(t, avail)
        \/ \E ok \in BOOLEAN : ConcLoginWrite(t, "abc123", ok)
        \/ \E ok \in BOOLEAN :
           \E reply \in IF ok THEN ConcReplies ELSE {NoReply} :
              ConcLoginRead(t, ok, reply)
        \/ ConcLoginSet(t)
     /\ UNCHANGED <<histVars, wireVars, pureVars, extVars>>

ConcActivityStep ==
  \E t \in Threads :
     /\ \/ ConcActivityBegin(t)
        \/ \E ok \in BOOLEAN : ConcActivityWrite(t, "Playing", ok)
        \/ \E ok \in BOOLEAN :
           \E reply \in IF ok THEN ConcReplies ELSE {NoReply} :
              ConcActivityRead(t, ok, reply)
     /\ UNCHANGED <<histVars, wireVars, pureVars, extVars>>

ConcLogoutStep ==
  \E t \in Threads :
     /\ \/ ConcLogoutBegin(t)
        \/ \E fail \in BOOLEAN : ConcLogoutClose(t, fail)
     /\ UNCHANGED <<histVars, wireVars, pureVars, extVars>>

NextConc == ConcLoginStep \/ ConcActivityStep \/ ConcLogoutStep

SpecConc == Init /\ [][NextConc]_vars

\* The read of thread t, in Login or in SetActivity.
ReadOf(t) ==
  /\ \/ \E ok \in BOOLEAN :
        \E reply \in IF ok THEN ConcReplies ELSE {NoReply} :
           ConcLoginRead(t, ok, reply)
     \/ \E ok \in BOOLEAN :
        \E reply \in IF ok THEN ConcReplies ELSE {NoReply} :
           ConcActivityRead(t, ok, reply)
  /\ UNCHANGED <<histVars, wireVars, pureVars, extVars>>

\* A read that can return does return: the thread in it is scheduled.
SpecConcLive == SpecConc /\ \A t \in Threads : WF_vars(ReadOf(t))

\* Threads that have written a request and not yet read a frame for it.
InFlight == {t \in Threads : pc[t] \in {"login_read", "activity_read"}}

\* ---- uses of the frame codec --------------------------------------------
\* One frame encoded and decoded again.
CodecRoundTrip ==
  \E opcode \in Opcodes, payload \in Payloads :
     /\ codec' = [did |-> "roundtrip", opcode |-> opcode, payload |-> payload,
                  bytes |-> Encode(opcode, payload),
                  decoded |-> Decode(Encode(opcode, payload))]
     /\ UNCHANGED <<clientVars, histVars, wireVars, concVars, http, http2,
                    extVars>>

\* Opcodes of the frames whose stream is cut short or runs on.
StreamOpcodes == {U32(1), MaxU32}

\* A stream that closes before the whole frame has arrived.
CodecTruncated ==
  \E opcode \in StreamOpcodes, payload \in Payloads :
  \E upto \in 0..(HeaderLen + Len(payload) - 1) :
     /\ codec' = [did |-> "truncated", opcode |-> opcode, payload |-> payload,
                  bytes |-> SubSeq(Encode(opcode, payload), 1, upto),
                  decoded |-> Decode(SubSeq(Encode(opcode, payload), 1, upto))]
     /\ UNCHANGED <<clientVars, histVars, wireVars, concVars, http, http2,
                    extVars>>

\* A stream on which the next frame follows the first.
CodecFollowed ==
  \E opcode \in StreamOpcodes, payload \in Payloads :
     LET stream == Encode(opcode, payload) \o Encode(U32(OpPing), <<123>>)
     IN /\ codec' = [did |-> "followed", opcode |-> opcode,
                     payload |-> payload, bytes |-> stream,
                     decoded |-> Decode(stream)]
        /\ UNCHANGED <<clientVars, histVars, wireVars, concVars, http, http2,
                       extVars>>

NextCodec == CodecRoundTrip \/ CodecTruncated \/ CodecFollowed

SpecCodec == Init /\ [][NextCodec]_vars

\* ---- calls of the Modrinth client ---------------------------------------
\* The client keeps nothing between calls, so a behaviour makes one call.
HttpGetProject ==
  /\ http.call = "none"
  /\ \E id \in ProjectIds, resp \in Responses :
        /\ http' = GetProject(id, resp)
        /\ http2' = NoCall
        /\ UNCHANGED <<clientVars, histVars, wireVars, concVars, codec,
                       extVars>>

HttpFollowProject ==
  /\ http.call = "none"
  /\ \E id \in ProjectIds, resp \in Responses :
        /\ http' = FollowProject(id, resp)
        /\ http2' = NoCall
        /\ UNCHANGED <<clientVars, histVars, wireVars, concVars, codec,
                       extVars>>

HttpUpdateCollectionIcon ==
  /\ http.call = "none"
  /\ \E id \in ProjectIds, mimeType \in MimeTypes :
     \E resp \in IF mimeType = "png" THEN {NoResponse} ELSE Responses :
        /\ http' = UpdateCollectionIcon(id, mimeType, resp)
        /\ http2' = NoCall
        /\ UNCHANGED <<clientVars, histVars, wireVars, concVars, codec,
                       extVars>>

\* GetProject(X) and GetProject("local-" + X) against one server, which
\* answers the same request in the same way.
HttpGetProjectLocal ==
  /\ http.call = "none"
  /\ \E id \in ProjectIds, resp \in Responses, resp2 \in Responses :
        /\ GetProject(id, resp).url = GetProject(LocalPrefix \o id, resp2).url
             => resp = resp2
        /\ http' = GetProject(id, resp)
        /\ http2' = GetProject(LocalPrefix \o id, resp2)
        /\ UNCHANGED <<clientVars, histVars, wireVars, concVars, codec,
                       extVars>>

NextHttp ==
  \/ HttpGetProject
  \/ HttpFollowProject
  \/ HttpUpdateCollectionIcon
  \/ HttpGetProjectLocal

SpecHttp == Init /\ [][NextHttp]_vars

\* ---- calls of the Curseforge client -------------------------------------
\* A client is built, then one call is made with it or with the Modrinth
\* client.
OptionLists ==
  {<<>>}
  \cup {<<WithBaseURL(u), WithHeaders(h)>> : u \in CfBaseURLs, h \in HeaderMaps}
  \cup {<<WithHeaders(h), WithBaseURL(u)>> : u \in CfBaseURLs, h \in HeaderMaps}

CfNew ==
  /\ ~cf.made
  /\ \E apiKey \in ApiKeys, options \in OptionLists :
        LET c == NewCurseforgeV1Client(apiKey, options)
        IN cf' = [made |-> TRUE, apiKey |-> apiKey, options |-> options,
                  baseURL |-> c.baseURL, headers |-> c.headers]
  /\ UNCHANGED <<clientVars, histVars, wireVars, concVars, pureVars,
                 cfcall, nonceVars>>

CfGetMod ==
  /\ cf.made
  /\ cfcall.call = "none"
  /\ http.call = "none"
  /\ \E modID \in ModIds, resp \in CfResponses :
     \E header \in RequestHeaders(cf.headers) :
        cfcall' = GetMod(cf, modID, header, resp)
  /\ UNCHANGED <<clientVars, histVars, wireVars, concVars, pureVars,
                 cf, nonceVars>>

\* The Modrinth call made by the side of the Curseforge one.
CfModrinthGetProject ==
  /\ cf.made
  /\ cfcall.call = "none"
  /\ HttpGetProject

NextCf == CfNew \/ CfGetMod \/ CfModrinthGetProject

SpecCf == Init /\ [][NextCf]_vars

\* What the caller gets back from a call.
Outcome(c) == [err |-> c.err, api |-> c.api, result |-> c.result]

\* ---- requests and their nonces ------------------------------------------
HandshakeAck == [json |-> TRUE, evt |-> "READY", data |-> "handshake"]

NonceLoginStep ==
  \E avail \in BOOLEAN :
     /\ logged => avail
     /\ Login("abc123", avail, "ok", IF avail /\ ~logged THEN HandshakeAck
                                     ELSE NoReply)
     /\ ObserveCall /\ ObserveLogin
     /\ UNCHANGED <<wireVars, concVars, pureVars, cfVars, nonceVars>>

NonceLogoutStep ==
  /\ Logout(FALSE) /\ ObserveCall /\ ready' = FALSE
  /\ UNCHANGED <<wireVars, concVars, pureVars, cfVars, nonceVars>>

NonceSetActivityStep ==
  \E randOk \in IF logged THEN BOOLEAN ELSE {TRUE} :
  \E out \in IF logged THEN SendOutcomes ELSE {"ok"} :
  \E reply \in IF logged /\ out = "ok" THEN Replies ELSE {NoReply} :
  \E rel \in IF reply.json THEN NonceRelations ELSE {"absent"} :
     /\ (logged /\ randOk) => drawn < MaxFrames
     /\ SetActivityWithNonce("Playing", randOk, rel, out, reply)
     /\ ObserveCall /\ UNCHANGED ready
     /\ UNCHANGED <<wireVars, concVars, pureVars, cfVars>>

NextNonce == NonceLoginStep \/ NonceLogoutStep \/ NonceSetActivityStep

SpecNonce == Init /\ [][NextNonce]_vars

\* The message frames (opcode 1) written so far, by connection and position.
MessageFrames ==
  {p \in Conns \X (1..MaxFrames) :
     p[2] <= Len(sent[p[1]]) /\ sent[p[1]][p[2]].op = OpFrame}

NonceOf(p) == sent[p[1]][p[2]].payload.nonce

\* ---- properties ---------------------------------------------------------

\* C1: a SET_ACTIVITY frame (opcode 1) is written only while the Session is
\* Ready, that is after a successful handshake and before the next Logout.
C1_RequestOnlyWhenReady == [][Wrote(OpFrame) => ready]_vars

C1_Witness ==
  /\ ready
  /\ lastOp = "SetActivity"
  /\ socket # NoConn
  /\ CountOp(sent[socket], OpFrame) >= 1

\* C2: SetActivity called while no Login has succeeded since the start or
\* since the last Logout returns success, writes no frame, reads no frame
\* and leaves the Session and its Connection as they were.
C2_SetActivityNoOpWhenNotLoggedIn ==
  [][(~ready /\ lastOp' = "SetActivity")
       => /\ lastResult' = "ok"
          /\ ~WroteAny
          /\ ~ReadAny
          /\ UNCHANGED <<logged, ready, socket, open, opened>>]_vars

C2_Witness ==
  /\ lastOp = "SetActivity"
  /\ lastResult = "ok"
  /\ prevOp = "Logout"
  /\ ~ready
  /\ TotalSent > 0

\* C3: Login called while the Session is Ready returns success and does
\* nothing, whatever the client identifier: no endpoint is opened, no frame
\* is written or read, and the Session stays Ready.
C3_LoginNoOpWhenReady ==
  [][(ready /\ lastOp' = "Login")
       => /\ lastResult' = "ok"
          /\ logged'
          /\ ready'
          /\ ~WroteAny
          /\ ~ReadAny
          /\ UNCHANGED <<socket, open, opened>>]_vars

C3_Witness ==
  /\ lastOp = "Login"
  /\ lastResult = "ok"
  /\ prevOp = "SetActivity"
  /\ prevResult = "ActivityRejected"
  /\ ready

\* C4: when the handshake reply carries the error event tag, Login fails
\* with HandshakeRejected and the Connection it opened is closed when it
\* returns.
C4_RejectedLoginClosesConnection ==
  (lastOp = "Login" /\ lastResult = "HandshakeRejected")
    => (opened \notin open /\ socket = NoConn)

\* C5: after a Login that failed with HandshakeRejected the Session is not
\* Ready, and a SetActivity that follows returns success without writing a
\* frame.
C5_RejectedLoginLeavesNotReady ==
  /\ []((lastOp = "Login" /\ lastResult = "HandshakeRejected")
          => (~logged /\ ~ready))
  /\ [][(lastOp = "Login" /\ lastResult = "HandshakeRejected"
           /\ lastOp' = "SetActivity")
          => (lastResult' = "ok" /\ ~WroteAny)]_vars

C5_Witness ==
  /\ lastOp = "SetActivity"
  /\ lastResult = "ok"
  /\ prevOp = "Login"
  /\ prevResult = "HandshakeRejected"
  /\ ~logged

\* C6: Logout never panics, from any state and also when called twice in a
\* row, and the Connection is closed after each call.
C6_LogoutNeverPanics ==
  lastOp = "Logout" => (lastResult = "ok" /\ socket = NoConn)

\* C7: a close failure during Logout comes back to the caller as a reported
\* result, the Session is forced to not Ready all the same, a SetActivity
\* that follows is a no-op and a Login that follows performs a handshake.
C7_CloseFailureReported ==
  /\ []((lastOp = "Logout" /\ lastResult # "ok")
          => (lastResult = "CloseFailed" /\ ~logged /\ ~ready))
  /\ [][(lastOp = "Logout" /\ lastResult # "ok")
          => /\ lastOp' = "SetActivity" => (lastResult' = "ok" /\ ~WroteAny)
             /\ (lastOp' = "Login" /\ lastResult' = "ok")
                  => Wrote(OpHandshake)]_vars

\* C8: at most one Connection is open for the client in every reachable
\* state.
C8_AtMostOneConnection == Cardinality(open) <= 1

\* C9: when the send or the receive of Login or SetActivity fails with a
\* transport error, the Connection is closed and the Session is not Ready
\* when the operation returns.
C9_TransportErrorClosesSession ==
  (lastOp \in {"Login", "SetActivity"} /\ lastResult = "SendFailed")
    => (socket = NoConn /\ ~logged)

\* C10: while the Session is Ready, exactly one handshake frame (opcode 0)
\* has been written to the Connection of the current session, however many
\* further Login calls were made.
C10_OneHandshakePerSession ==
  ready => (opened \in Conns /\ CountOp(sent[opened], OpHandshake) = 1)

C10_Witness ==
  /\ ready
  /\ lastOp = "Login"
  /\ prevOp = "Login"
  /\ prevResult = "ok"

\* The judgement the client would give the reply that answers its request.
ResultOf(op, reply) ==
  IF op = "Login" THEN LoginResult(FALSE, FALSE, reply)
  ELSE SetActivityResult(FALSE, reply)

\* C11 (as stated): from a not-Ready state, when an endpoint opens and the
\* handshake reply carries no error event tag, Login returns success and the
\* Session becomes Ready.
C11_NoErrorTagLoginSucceeds ==
  [][(~ready /\ lastOp' = "Login" /\ opened' # opened /\ ReadAny
        /\ exch'.pre = "none" /\ ParsesAsResponse(exch'.reply)
        /\ exch'.reply.evt # "ERROR")
       => (lastResult' = "ok" /\ logged' /\ ready')]_vars

\* C11 (amended): from a not-Ready state, when an endpoint opens and the
\* handshake reply parses as a response, carries no error event tag and has
\* data that decodes as handshake metadata, Login returns success and the
\* Session becomes Ready.
C11_DecodableReplyLoginSucceeds ==
  [][(~ready /\ lastOp' = "Login" /\ opened' # opened /\ ReadAny
        /\ exch'.pre = "none" /\ exch'.reply.evt # "ERROR"
        /\ ParsesAsResponse(exch'.reply) /\ DecodesAsHandshake(exch'.reply))
       => (lastResult' = "ok" /\ logged' /\ ready')]_vars

C11_Witness ==
  /\ lastOp = "Login"
  /\ lastResult = "ok"
  /\ ready
  /\ exch.pre = "none"
  /\ exch.reply = [json |-> TRUE, evt |-> "READY", data |-> "handshake"]

\* C12: a SetActivity whose reply carries the error event tag returns
\* ActivityRejected and leaves the Session Ready with the Connection open,
\* and the next SetActivity performs a new exchange on it.
C12_RejectedActivityKeepsReady ==
  /\ []((lastOp = "SetActivity" /\ lastResult = "ActivityRejected")
          => (logged /\ ready /\ socket # NoConn /\ socket \in open))
  /\ [][(lastOp = "SetActivity" /\ lastResult = "ActivityRejected"
           /\ lastOp' = "SetActivity")
          => (Wrote(OpFrame) \/ lastResult' = "SendFailed")]_vars

C12_Witness ==
  /\ lastOp = "SetActivity"
  /\ prevOp = "SetActivity"
  /\ prevResult = "ActivityRejected"
  /\ socket # NoConn
  /\ CountOp(sent[socket], OpFrame) = 2

\* C13 (as stated): for every decoded reply the operation fails exactly when
\* the event tag is "ERROR", whatever the data, and the error carries the
\* reply's data; any other reply is a success.
C13_FailsExactlyOnErrorTag ==
  [][(ReadAny /\ ParsesAsResponse(exch'.read))
       => /\ (lastResult' # "ok") <=> IsError(exch'.read)
          /\ IsError(exch'.read) => exch'.detail = exch'.read.data]_vars

\* C13 (amended): for every decoded reply, an event tag "ERROR" makes the
\* operation fail with the reply's data as detail, whatever the data; any
\* other reply is a success of SetActivity, and a success of Login exactly
\* when its data decodes as handshake metadata.
C13_ErrorTagFailsOtherTagsDecode ==
  [][(ReadAny /\ ParsesAsResponse(exch'.read))
       => /\ IsError(exch'.read)
               => /\ lastResult' \in {"HandshakeRejected", "ActivityRejected"}
                  /\ exch'.detail = exch'.read.data
          /\ (~IsError(exch'.read) /\ lastOp' = "SetActivity")
               => lastResult' = "ok"
          /\ (~IsError(exch'.read) /\ lastOp' = "Login")
               => (lastResult' = "ok" <=> DecodesAsHandshake(exch'.read))]_vars

C13_Witness ==
  /\ lastOp = "SetActivity"
  /\ lastResult = "ActivityRejected"
  /\ exch.read = [json |-> TRUE, evt |-> "ERROR", data |-> "string"]
  /\ exch.detail = "string"

\* C14: when every endpoint candidate 0..9 is refused, Login returns
\* EndpointExhausted after one pass over the candidates, writes and reads no
\* frame and leaves the Session not Ready; a later Login tries the
\* candidates again.
C14_ExhaustedIsSurfaced ==
  /\ [][(~ready /\ lastOp' = "Login" /\ dialed' = NumCandidates
           /\ opened' = opened)
          => /\ lastResult' = "EndpointExhausted"
             /\ ~WroteAny /\ ~ReadAny
             /\ ~logged' /\ ~ready']_vars
  /\ [][(lastOp = "Login" /\ lastResult = "EndpointExhausted"
           /\ lastOp' = "Login")
          => dialed' > 0]_vars

C14_Witness ==
  /\ lastOp = "Login"
  /\ lastResult = "EndpointExhausted"
  /\ dialed = NumCandidates
  /\ ~logged
  /\ TotalSent > 0

\* C15: with Login, SetActivity and Logout called concurrently, at most one
\* operation is between its send and its receive at any time, and no thread
\* reads the reply to another thread's request.
C15_OneOperationInFlight == Cardinality(InFlight) <= 1 /\ ~misread

\* C16: a keepalive frame (opcode 3 or 4) that arrives between a request and
\* its reply is ignored: the result of Login or SetActivity is the one the
\* reply frame calls for.
C16_KeepaliveIgnored ==
  [][(ReadAny /\ exch'.pre # "none")
       => lastResult' = ResultOf(lastOp', exch'.reply)]_vars

\* C18: a Login that follows a Logout does not return early: it opens an
\* endpoint again and sends one handshake frame on it, and the Session is
\* Ready again when that handshake succeeds.
C18_LoginAfterLogoutHandshakes ==
  [][(lastOp = "Logout" /\ lastOp' = "Login")
       => /\ lastResult' = "EndpointExhausted" \/ opened' = opened + 1
          /\ opened' = opened + 1
               => (Wrote(OpHandshake) \/ lastResult' = "SendFailed")
          /\ lastResult' = "ok"
               => /\ Wrote(OpHandshake)
                  /\ CountOp(sent'[opened'], OpHandshake) = 1
                  /\ logged' /\ ready']_vars

C18_Witness ==
  /\ lastOp = "Login"
  /\ lastResult = "ok"
  /\ prevOp = "Logout"
  /\ opened = 2
  /\ ready

\* C17: for every opcode in the 32-bit unsigned range and every payload
\* whose length fits in 32 bits, decoding the bytes that encode produced
\* gives back exactly that opcode and that payload.
C17_CodecRoundTrip ==
  codec.did = "roundtrip" =>
    codec.decoded = [ok |-> TRUE, opcode |-> codec.opcode,
                     payload |-> codec.payload]

C17_Witness ==
  /\ codec.did = "roundtrip"
  /\ codec.opcode = MaxU32
  /\ Len(codec.payload) = MaxPayload
  /\ Len(codec.bytes) = HeaderLen + MaxPayload

\* The calls of the Modrinth client that got a response.
Answered == {c \in {http, http2} : c.requested /\ c.resp.sent}

\* C19: a response with a status outside 200..299 yields a ModrinthAPIError
\* carrying the requested URL, the status and the raw body; a response with
\* a status inside 200..299 yields the decoded result and no error.
C19_StatusDecidesOutcome ==
  \A c \in Answered :
     IF c.resp.status < 200 \/ c.resp.status >= 300
     THEN /\ c.err = "ModrinthAPIError"
          /\ c.api = [URL |-> c.url, Status |-> c.resp.status,
                      Body |-> c.resp.body]
     ELSE c.err = "nil"

\* C19, amended: a status outside 200..299 yields a ModrinthAPIError with
\* the URL of the request that obtained the response (the requested URL
\* when no redirect was followed), the status and the raw body; a status
\* inside 200..299 yields no error and the decoded result when no result is
\* wanted or the body decodes, and the decoder's error otherwise.
C19_StatusAndBodyDecideOutcome ==
  \A c \in Answered :
     IF c.resp.status < 200 \/ c.resp.status >= 300
     THEN /\ c.err = "ModrinthAPIError"
          /\ c.api.Status = c.resp.status
          /\ c.api.Body = c.resp.body
          /\ c.api.URL = IF c.resp.redirected THEN RedirectTarget ELSE c.url
     ELSE IF c.wantResult /\ ~JsonDecode(c.resp.body).ok
     THEN c.err = "decode"
     ELSE /\ c.err = "nil"
          /\ c.wantResult => c.result = JsonDecode(c.resp.body).value

C19_Witness ==
  /\ http.call = "GetProject"
  /\ http.resp.sent
  /\ http.resp.status = 204
  /\ http.resp.body = ""
  /\ http.err = "decode"

\* C20: for every id X, GetProject("local-" + X) issues the request for
\* /v2/project/X, the same request as GetProject(X), and returns the same
\* result.
C20_LocalPrefixIsIgnored ==
  http2.call = "GetProject" =>
    /\ http2.url = ProjectURL(http.id)
    /\ http2.url = http.url
    /\ Outcome(http2) = Outcome(http)

\* C20, amended: for every id X, GetProject("local-" + X) issues the request
\* for /v2/project/X; that is the request of GetProject(X), with the same
\* result, exactly when X does not itself begin with "local-".
C20_OneLocalPrefixIsRemoved ==
  http2.call = "GetProject" =>
    /\ http2.id = LocalPrefix \o http.id
    /\ http2.url = ProjectURL(http.id)
    /\ IF HasPrefix(http.id, LocalPrefix)
       THEN http.url # http2.url
       ELSE http.url = http2.url /\ Outcome(http2) = Outcome(http)

C20_Witness ==
  /\ http2.call = "GetProject"
  /\ http.id = LocalPrefix \o <<"a">>
  /\ http.url = ProjectURL(<<"a">>)
  /\ http2.url = ProjectURL(LocalPrefix \o <<"a">>)

\* The client was built as NewCurseforgeV1Client(key, WithBaseURL(u),
\* WithHeaders(h)).
BuiltWithBaseAndHeaders ==
  /\ cf.made
  /\ Len(cf.options) = 2
  /\ cf.options[1].opt = "WithBaseURL"
  /\ cf.options[2].opt = "WithHeaders"

\* C21: the client built by NewCurseforgeV1Client(key, WithBaseURL(u),
\* WithHeaders(h)) has baseURL u, contains every header of h and has header
\* x-api-key equal to key, and every request it sends carries x-api-key
\* equal to key.
C21_ClientCarriesApiKey ==
  BuiltWithBaseAndHeaders =>
    LET h == cf.options[2].headers
    IN /\ cf.baseURL = cf.options[1].baseURL
       /\ \A k \in DOMAIN h : k \in DOMAIN cf.headers /\ cf.headers[k] = h[k]
       /\ "x-api-key" \in DOMAIN cf.headers
       /\ cf.headers["x-api-key"] = cf.apiKey
       /\ cfcall.call # "none" =>
            HeaderGet(cfcall.header, "x-api-key") = cf.apiKey

\* C21, amended: that client has baseURL u and contains every header of h;
\* its header x-api-key is key unless h has an entry x-api-key, whose value
\* then replaces key; a request carries x-api-key equal to key when h has no
\* entry named x-api-key in any letter case, and otherwise carries the value
\* of one of the client's entries so named.
C21_ApiKeyUnlessOverridden ==
  BuiltWithBaseAndHeaders =>
    LET h == cf.options[2].headers
        named == {k \in DOMAIN cf.headers : CanonicalKey(k) = "X-Api-Key"}
    IN /\ cf.baseURL = cf.options[1].baseURL
       /\ \A k \in DOMAIN h : k \in DOMAIN cf.headers /\ cf.headers[k] = h[k]
       /\ "x-api-key" \in DOMAIN cf.headers
       /\ cf.headers["x-api-key"] =
            IF "x-api-key" \in DOMAIN h THEN h["x-api-key"] ELSE cf.apiKey
       /\ cfcall.call # "none" =>
            IF \E k \in DOMAIN h : CanonicalKey(k) = "X-Api-Key"
            THEN HeaderGet(cfcall.header, "x-api-key")
                   \in {cf.headers[k] : k \in named}
            ELSE HeaderGet(cfcall.header, "x-api-key") = cf.apiKey

C21_Witness ==
  /\ BuiltWithBaseAndHeaders
  /\ cf.apiKey = "key"
  /\ cf.options[1].baseURL = <<"https://test.url">>
  /\ cf.options[2].headers = ("hello" :> "world")
  /\ cfcall.call = "GetMod"
  /\ cfcall.resp.sent
  /\ HeaderGet(cfcall.header, "x-api-key") = "key"
  /\ HeaderGet(cfcall.header, "hello") = "world"

\* C29: the Curseforge client takes only status 200 for a success: every
\* response with another status, 201 and 204 included, yields a
\* CurseforgeAPIError carrying the URL, the status and the body, whereas the
\* Modrinth client raises no API error for any status in 200..299.
C29_CurseforgeOnly200 ==
  /\ (cfcall.call # "none" /\ cfcall.resp.sent) =>
       IF cfcall.resp.status # 200
       THEN /\ cfcall.err = "CurseforgeAPIError"
            /\ cfcall.api.Status = cfcall.resp.status
            /\ cfcall.api.Body = cfcall.resp.body
            /\ cfcall.api.URL = IF cfcall.resp.redirected THEN RedirectTarget
                                ELSE cfcall.url
       ELSE cfcall.err # "CurseforgeAPIError"
  /\ (http.call # "none" /\ http.resp.sent) =>
       (http.err = "ModrinthAPIError"
          <=> (http.resp.status < 200 \/ http.resp.status >= 300))

C29_Witness ==
  /\ cfcall.call = "GetMod"
  /\ cfcall.resp.sent
  /\ cfcall.resp.status = 204
  /\ cfcall.err = "CurseforgeAPIError"
  /\ cfcall.api.Status = 204

\* The payload length that the header of the stream states, when the stream
\* has a whole header and the length is below 65536.
StatedLength == codec.bytes[5] + 256 * codec.bytes[6]

\* C25: decode fails with TruncatedFrame when the stream closes after fewer
\* than 8 header bytes or after fewer payload bytes than the header states,
\* and a Frame it returns has as many payload bytes as its header states.
C25_TruncatedStreamFails ==
  codec.did # "none" =>
    /\ Len(codec.bytes) < HeaderLen => codec.decoded = Truncated
    /\ Len(codec.bytes) >= HeaderLen =>
         /\ codec.bytes[7] = 0 /\ codec.bytes[8] = 0
         /\ Len(codec.bytes) - HeaderLen < StatedLength
              => codec.decoded = Truncated
         /\ codec.decoded.ok =>
              /\ Len(codec.decoded.payload) = StatedLength
              /\ codec.decoded.payload = codec.payload

C25_Witness ==
  /\ codec.did = "truncated"
  /\ Len(codec.payload) = MaxPayload
  /\ Len(codec.bytes) = HeaderLen + MaxPayload - 1
  /\ codec.decoded = Truncated

\* C26: encode produces exactly 8 + len(payload) bytes: bytes 0..3 are the
\* opcode and bytes 4..7 the payload length, both little-endian 32-bit
\* unsigned, then the payload unchanged, whatever the opcode is.
C26_EncodeLayout ==
  codec.did = "roundtrip" =>
    /\ Len(codec.bytes) = HeaderLen + Len(codec.payload)
    /\ \A i \in 1..Len(codec.bytes) : codec.bytes[i] \in 0..255
    /\ codec.bytes[1] + 256 * codec.bytes[2] = codec.opcode.lo
    /\ codec.bytes[3] + 256 * codec.bytes[4] = codec.opcode.hi
    /\ codec.bytes[5] + 256 * codec.bytes[6] = Len(codec.payload)
    /\ codec.bytes[7] = 0 /\ codec.bytes[8] = 0
    /\ SubSeq(codec.bytes, HeaderLen + 1, Len(codec.bytes)) = codec.payload

C26_Witness ==
  /\ codec.did = "roundtrip"
  /\ codec.opcode = [hi |-> 258, lo |-> 772]
  /\ codec.payload = <<123, 255>>
  /\ codec.bytes = <<4, 3, 2, 1, 2, 0, 0, 0, 123, 255>>

\* C22: every operation writes at most one frame and reads at most one, and
\* none reads a frame without having written one; a Login from a not-Ready
\* state and a SetActivity in the Ready state, when the endpoint opens and
\* the transport does not fail, write one frame and then read one frame
\* before they return.
C22_OneSendOneReceive ==
  [][/\ TotalSent' - TotalSent \in {0, 1}
     /\ TotalRecv' - TotalRecv \in {0, 1}
     /\ ReadAny => WroteAny
     /\ (/\ \/ lastOp' = "Login" /\ ~ready /\ ~logged
            \/ lastOp' = "SetActivity" /\ ready /\ logged
         /\ lastResult' \notin {"EndpointExhausted", "SendFailed"})
        => (WroteAny /\ ReadAny)]_vars

C22_Witness ==
  /\ lastOp = "SetActivity"
  /\ prevOp = "Login"
  /\ prevResult = "ok"
  /\ lastResult = "ActivityRejected"
  /\ TotalSent = 2
  /\ TotalRecv = 2

\* C23: the nonce of every message frame the client writes differs from the
\* nonce of every message frame it wrote before, also when the random
\* source fails.
C23_NonceNeverReused ==
  \A p, q \in MessageFrames : p # q => NonceOf(p) # NonceOf(q)

\* C24: SetActivity does not compare the nonce of the reply with that of
\* the request: a reply that parses and carries no error event tag yields
\* success whether its nonce is the request's, another one, or absent.
C24_ReplyNonceNotCompared ==
  [][(lastOp' = "SetActivity" /\ ReadAny /\ corr'.reply.json
        /\ corr'.reply.evt # "ERROR")
       => (lastResult' = "ok" /\ corr'.rel \in NonceRelations)]_vars

C24_Witness ==
  /\ lastOp = "SetActivity"
  /\ lastResult = "ok"
  /\ corr.rel = "other"
  /\ corr.reply.json
  /\ corr.nonce = GetNonce(1)

C28_LoggedImpliesOpenConnection ==
  logged => (socket # NoConn /\ socket \in open)

====
